---- MODULE Spec2Model ----
(***************************************************************************)
(* Model of the Polly-API client toolkit: the transport wrappers           *)
(* fetch_polls and register_user, and the pagination aggregator            *)
(* fetch_all_polls.  The remote service is the environment: every HTTP     *)
(* call ends in one outcome chosen among those the requests library can    *)
(* deliver.                                                                *)
(***************************************************************************)
EXTENDS Integers, Sequences, FiniteSets, TLC

(* ------------------------------ bounds -------------------------------- *)
\* largest number of records the source holds
MaxN == 4
\* largest page_size passed to fetch_all_polls
MaxPageSize == 3
\* largest max_polls passed to fetch_all_polls
MaxPolls == 3
\* how many items beyond the requested limit a misbehaving server may send
MaxOver == 1
\* longest sequence of register_user calls
MaxCalls == 3

\* cap on the accumulated total, above what any run with max_polls set or
\* any run against a source that honours skip and limit can reach
MaxTotal == MaxN + MaxPolls + MaxOver

(* --------------------------- program constants ------------------------ *)
HTTP_OK == 200
HTTP_BAD_REQUEST == 400
\* statuses other than 200 the poll endpoint may answer with
OtherStatuses == {201, 404, 500}
\* an element of a JSON body that is not a poll of the source (a key of an
\* object, a character of a string, a record the source does not hold)
Junk == 0

Min(a, b) == IF a <= b THEN a ELSE b

(* ----------------------- JSON bodies and outcomes --------------------- *)
\* What response.json() yields, by shape; NotJson is a body on which it
\* raises JSONDecodeError.
JArray(items) == [kind |-> "array", items |-> items]
JObject(keys) == [kind |-> "object", items |-> keys]
JString(chars) == [kind |-> "string", items |-> chars]
JNull == [kind |-> "null", items |-> <<>>]
JNumber == [kind |-> "number", items |-> <<>>]
NotJson == [kind |-> "text", items |-> <<>>]

\* Python's len(): defined on lists, dicts and strings, TypeError otherwise.
HasLen(body) == body.kind \in {"array", "object", "string"}
PyLen(body) == Len(body.items)

\* The outcomes of one requests.get / requests.post call.
ConnectionError == [type |-> "connection_error"]
RequestError == [type |-> "request_error"]
Response(status, body) == [type |-> "response", status |-> status, body |-> body]

\* The message carried by a failure that has no server payload.
ErrorMsg(text) == [kind |-> "message", text |-> text]

(* ------------------------------ the source ---------------------------- *)
\* k records starting at offset skip; past the end of the source a
\* misbehaving server pads with records the source does not hold.
ServerItems(src, skip, k) ==
    [i \in 1..k |-> IF skip + i <= Len(src) THEN src[skip + i] ELSE Junk]

\* The answer of a source that honours skip and limit: the records at
\* positions skip .. skip+limit-1.
HonestOutcome(src, skip, limit) ==
    Response(HTTP_OK, JArray(SubSeq(src, skip + 1, Min(skip + limit, Len(src)))))

\* Every body the poll endpoint may send for a request, bounded so that the
\* accumulated total stays within MaxTotal.
PollBodies(src, skip, limit, room) ==
    { b \in { JArray(ServerItems(src, skip, k)) : k \in 0..(limit + MaxOver) }
            \cup { JObject(<<>>), JObject(<<Junk>>), JString(<<Junk>>),
                   JNull, JNumber, NotJson } :
        PyLen(b) <= room }

PollOutcomes(src, skip, limit, room) ==
    { ConnectionError, RequestError }
    \cup { Response(s, b) : s \in {HTTP_OK} \cup OtherStatuses,
                            b \in PollBodies(src, skip, limit, room) }

(* ----------------------------- fetch_polls ---------------------------- *)
\* fetch_polls as a function of the outcome of its one HTTP call.  A value
\* with a "raised" field and no "success" field is an exception that leaves
\* the function.
FetchPollsAny2xx(skip, limit, outcome) ==
    IF outcome.type = "connection_error"
    THEN [success |-> FALSE, error |-> ErrorMsg("Could not connect to the API")]
    ELSE IF outcome.type = "request_error"
    THEN [success |-> FALSE, error |-> ErrorMsg("Request failed")]
    ELSE IF outcome.body.kind = "text"
    THEN [success |-> FALSE, error |-> ErrorMsg("Invalid JSON response from server")]
    ELSE IF outcome.status \in 200..299
    THEN IF ~HasLen(outcome.body)
         THEN [raised |-> "TypeError"]
         ELSE [success |-> TRUE,
               status_code |-> outcome.status,
               data |-> outcome.body,
               pagination |-> [skip |-> skip,
                               limit |-> limit,
                               returned_count |-> PyLen(outcome.body)]]
    ELSE [success |-> FALSE,
          status_code |-> outcome.status,
          error |-> outcome.body]

FetchPollsCountIsLimit(skip, limit, outcome) ==
    IF outcome.type = "connection_error"
    THEN [success |-> FALSE, error |-> ErrorMsg("Could not connect to the API")]
    ELSE IF outcome.type = "request_error"
    THEN [success |-> FALSE, error |-> ErrorMsg("Request failed")]
    ELSE IF outcome.body.kind = "text"
    THEN [success |-> FALSE, error |-> ErrorMsg("Invalid JSON response from server")]
    ELSE IF outcome.status = HTTP_OK
    THEN IF ~HasLen(outcome.body)
         THEN [raised |-> "TypeError"]
         ELSE [success |-> TRUE,
               status_code |-> outcome.status,
               data |-> outcome.body,
               pagination |-> [skip |-> skip,
                               limit |-> limit,
                               returned_count |-> limit]]
    ELSE [success |-> FALSE,
          status_code |-> outcome.status,
          error |-> outcome.body]

FetchPolls(skip, limit, outcome) ==
    IF outcome.type = "connection_error"
    THEN [success |-> FALSE, error |-> ErrorMsg("Could not connect to the API")]
    ELSE IF outcome.type = "request_error"
    THEN [success |-> FALSE, error |-> ErrorMsg("Request failed")]
    ELSE IF outcome.body.kind = "text"
    THEN [success |-> FALSE, error |-> ErrorMsg("Invalid JSON response from server")]
    ELSE IF outcome.status = HTTP_OK
    THEN IF ~HasLen(outcome.body)
         THEN [raised |-> "TypeError"]
         ELSE [success |-> TRUE,
               status_code |-> outcome.status,
               data |-> outcome.body,
               pagination |-> [skip |-> skip,
                               limit |-> limit,
                               returned_count |-> PyLen(outcome.body)]]
    ELSE [success |-> FALSE,
          status_code |-> outcome.status,
          error |-> outcome.body]

(* --------------------------- fetch_all_polls -------------------------- *)
VARIABLES
    source,         \* the records the service holds, in order
    page_size,      \* argument of fetch_all_polls
    max_polls,      \* argument of fetch_all_polls: <<>> is None, <<m>> is m
    pc,             \* "loop", "done" (returned) or "raised" (exception left)
    all_polls,      \* local of fetch_all_polls
    skip,           \* local of fetch_all_polls
    total_fetched,  \* local of fetch_all_polls
    ret,            \* <<>> until fetch_all_polls ends, then <<its result>>
    requests,       \* history: number of fetch_polls calls made so far
    honest,         \* history: every answer so far honoured skip and limit
    page,           \* history: <<>> or <<the last fetch_polls call>>
    users,          \* registration service: the usernames it holds
    next_id,        \* registration service: the id it generates next
    log             \* history: the register_user calls made, in order

pollVars == <<source, page_size, max_polls, pc, all_polls, skip, total_fetched,
              ret, requests, honest, page>>
regVars == <<users, next_id, log>>
vars == <<pollVars, regVars>>

\* max_polls - total_fetched <= 0, with max_polls set
ReachedMaxOffByOne(mp, total) == mp # <<>> /\ mp[1] - total < 0
ReachedMax(mp, total) == mp # <<>> /\ mp[1] - total <= 0

\* the limit of the next request
CurrentLimitIsPageSize(ps, mp, total) == ps
CurrentLimit(ps, mp, total) ==
    IF mp # <<>> THEN Min(ps, mp[1] - total) ELSE ps

\* skip += len(current_polls)
AdvanceSkipByLimit(s, current_polls, current_limit) == s + current_limit
AdvanceSkip(s, current_polls, current_limit) == s + PyLen(current_polls)

\* total_fetched += len(current_polls)
AdvanceTotal(total, current_polls) == total + PyLen(current_polls)

\* all_polls.extend(current_polls)
Extend(polls, current_polls) == polls \o current_polls.items

\* len(current_polls) < current_limit
ShortPageInclusive(current_polls, current_limit) ==
    PyLen(current_polls) <= current_limit
ShortPage(current_polls, current_limit) == PyLen(current_polls) < current_limit

\* (skip // page_size) + (1 if skip % page_size > 0 else 0)
TotalRequests(s, ps) == (s \div ps) + (IF s % ps > 0 THEN 1 ELSE 0)

\* the success result built after the loop
AllPollsResult(polls, total, s, ps) ==
    [success |-> TRUE,
     data |-> polls,
     total_count |-> total,
     pagination_info |-> [page_size |-> ps,
                          total_requests |-> TotalRequests(s, ps)]]

\* if not result.get("success"): return result
FailureReturnPartial(result, polls, total, s, ps) ==
    AllPollsResult(polls, total, s, ps)
FailureReturn(result, polls, total, s, ps) == result

Init ==
    /\ \E n \in 0..MaxN : source = [i \in 1..n |-> i]
    /\ page_size \in 1..MaxPageSize
    /\ max_polls \in {<<>>} \cup { <<m>> : m \in (-1)..MaxPolls }
    /\ pc = "loop"
    /\ all_polls = <<>>
    /\ skip = 0
    /\ total_fetched = 0
    /\ ret = <<>>
    /\ requests = 0
    /\ honest = TRUE
    /\ page = <<>>
    /\ users = {}
    /\ next_id = 1
    /\ log = <<>>

\* The loop reaches max_polls: break, then return the success result.
LoopExit ==
    /\ pc = "loop"
    /\ ReachedMax(max_polls, total_fetched)
    /\ pc' = "done"
    /\ ret' = <<AllPollsResult(all_polls, total_fetched, skip, page_size)>>
    /\ UNCHANGED <<source, page_size, max_polls, all_polls, skip,
                   total_fetched, requests, honest, page>>
    /\ UNCHANGED regVars

\* One iteration of the loop that issues a request.
LoopFetch ==
    /\ pc = "loop"
    /\ ~ReachedMax(max_polls, total_fetched)
    /\ LET current_limit == CurrentLimit(page_size, max_polls, total_fetched) IN
       \E outcome \in PollOutcomes(source, skip, current_limit,
                                   MaxTotal - total_fetched) :
         LET result == FetchPolls(skip, current_limit, outcome) IN
           /\ requests' = requests + 1
           /\ honest' = (honest /\ outcome = HonestOutcome(source, skip, current_limit))
           /\ page' = << [skip |-> skip, limit |-> current_limit,
                          outcome |-> outcome, result |-> result] >>
           /\ IF "raised" \in DOMAIN result
              THEN /\ pc' = "raised"
                   /\ ret' = <<result>>
                   /\ UNCHANGED <<all_polls, skip, total_fetched>>
              ELSE IF ~result.success
              THEN /\ pc' = "done"
                   /\ ret' = << FailureReturn(result, all_polls, total_fetched,
                                              skip, page_size) >>
                   /\ UNCHANGED <<all_polls, skip, total_fetched>>
              ELSE IF PyLen(result.data) = 0
              THEN /\ pc' = "done"
                   /\ ret' = <<AllPollsResult(all_polls, total_fetched, skip, page_size)>>
                   /\ UNCHANGED <<all_polls, skip, total_fetched>>
              ELSE /\ all_polls' = Extend(all_polls, result.data)
                   /\ total_fetched' = AdvanceTotal(total_fetched, result.data)
                   /\ skip' = AdvanceSkip(skip, result.data, current_limit)
                   /\ IF ShortPage(result.data, current_limit)
                      THEN /\ pc' = "done"
                           /\ ret' = <<AllPollsResult(all_polls', total_fetched',
                                                      skip', page_size)>>
                      ELSE /\ pc' = "loop"
                           /\ ret' = <<>>
    /\ UNCHANGED <<source, page_size, max_polls>>
    /\ UNCHANGED regVars

Next == LoopExit \/ LoopFetch

Spec == Init /\ [][Next]_vars

\* The HTTP call of each request returns, so the loop keeps stepping.
FairSpec == Spec /\ WF_vars(Next)

(* ======================= properties of the claims ===================== *)
\* the last fetch_polls call returned a result record (no exception)
PageReturned == page # <<>> /\ "success" \in DOMAIN page[1].result
PageSucceeded == PageReturned /\ page[1].result.success
PageFailed == PageReturned /\ ~page[1].result.success
MaxPollsSet == max_polls # <<>>

\* C1: against a source of N records that honours skip and limit, with
\* max_polls unset, fetch_all_polls returns success, total_count = N and
\* data equal to the records of the source in their order.
C1_AllRecordsInOrder ==
    (pc = "done" /\ honest /\ ~MaxPollsSet) =>
        /\ ret[1].success
        /\ ret[1].total_count = Len(source)
        /\ ret[1].data = source

\* C1 witness: a run over a source whose size is a multiple of page_size,
\* two full pages and the closing empty page.
C1_Witness ==
    /\ pc = "done" /\ honest /\ ~MaxPollsSet
    /\ Len(source) = 2 * page_size
    /\ requests = 3
    /\ ret[1].data = source

\* C2: against a source of N records that honours skip and limit, with
\* max_polls = M, 0 <= M < N, the accumulated count never exceeds M and the
\* result holds exactly the first M records, total_count = M.
C2_ExactlyMaxPolls ==
    (honest /\ MaxPollsSet /\ max_polls[1] >= 0 /\ max_polls[1] < Len(source)) =>
        /\ total_fetched <= max_polls[1]
        /\ Len(all_polls) <= max_polls[1]
        /\ pc # "raised"
        /\ pc = "done" =>
              /\ ret[1].success
              /\ ret[1].total_count = max_polls[1]
              /\ ret[1].data = SubSeq(source, 1, max_polls[1])

\* C2 witness: M is not a multiple of page_size, the last request is cut to
\* the remainder.
C2_Witness ==
    /\ pc = "done" /\ honest /\ MaxPollsSet
    /\ max_polls[1] < Len(source)
    /\ max_polls[1] % page_size # 0
    /\ requests = 2
    /\ ret[1].total_count = max_polls[1]

\* C3: when a page fails, fetch_all_polls has returned that failure result
\* unchanged, without data, total_count or pagination_info, and no further
\* request is made.
C3_FailurePropagated ==
    /\ [](PageFailed =>
            /\ pc = "done"
            /\ ret = <<page[1].result>>
            /\ DOMAIN ret[1] \cap {"data", "total_count", "pagination_info"} = {})
    /\ [][PageFailed => requests' = requests]_vars

\* C3 witness: a later page fails with a server status after polls were
\* accumulated.
C3_Witness ==
    /\ PageFailed
    /\ requests >= 2
    /\ Len(all_polls) > 0
    /\ "status_code" \in DOMAIN page[1].result
    /\ ret = <<page[1].result>>

\* C4: skip, total_fetched and the length of all_polls are equal in every
\* state; each request is sent with skip equal to the running total, and a
\* successful page advances skip by the number of items it returned.
C4_SkipIsRunningTotal ==
    /\ [](/\ skip = total_fetched
          /\ total_fetched = Len(all_polls)
          /\ PageSucceeded =>
                skip = page[1].skip + PyLen(page[1].result.data))
    /\ [][requests' # requests => page'[1].skip = total_fetched]_vars

\* C4 witness: the loop goes on after a page longer than the limit asked.
C4_Witness ==
    /\ PageSucceeded
    /\ pc = "loop"
    /\ requests >= 2
    /\ PyLen(page[1].result.data) > page[1].limit
    /\ skip = total_fetched

\* C5 as claimed: every response whose status is not 200 gives a failure
\* with that status_code and the body as error, JSON or not.
C5_AnyBodyKeepsStatus ==
    (page # <<>> /\ page[1].outcome.type = "response"
                 /\ page[1].outcome.status # HTTP_OK) =>
        /\ PageFailed
        /\ "status_code" \in DOMAIN page[1].result
        /\ page[1].result.status_code = page[1].outcome.status
        /\ page[1].result.error = page[1].outcome.body

\* C5 amended: a response whose status is not 200 gives a failure with that
\* status_code and the decoded body as error when the body is JSON; when the
\* body is not JSON the failure has no status_code and carries the
\* invalid-JSON message.
C5_JsonBodyKeepsStatus ==
    (page # <<>> /\ page[1].outcome.type = "response"
                 /\ page[1].outcome.status # HTTP_OK) =>
        /\ PageFailed
        /\ IF page[1].outcome.body.kind # "text"
           THEN /\ "status_code" \in DOMAIN page[1].result
                /\ page[1].result.status_code = page[1].outcome.status
                /\ page[1].result.error = page[1].outcome.body
           ELSE /\ "status_code" \notin DOMAIN page[1].result
                /\ page[1].result.error =
                       ErrorMsg("Invalid JSON response from server")

\* C5 witness: a response with status 500 whose body is not JSON.
C5_Witness ==
    /\ page # <<>>
    /\ page[1].outcome.type = "response"
    /\ page[1].outcome.status = 500
    /\ page[1].outcome.body.kind = "text"
    /\ PageFailed

\* C6 as claimed: every fetch_polls and register_user call returns a result
\* record with a success flag; no exception leaves the call.
C6_NoExceptionEscapes ==
    /\ page # <<>> => "success" \in DOMAIN page[1].result
    /\ \A i \in 1..Len(log) : "success" \in DOMAIN log[i].result

C8_TotalRequestsIsCallCount ==
    (pc = "done" /\ ret[1].success) =>
        ret[1].pagination_info.total_requests = requests

\* C10: with max_polls set the run ends; it makes at most max_polls
\* requests, and none when max_polls <= 0, where it returns success with
\* empty data and total_count 0.
C10_BoundedByMaxPolls ==
    /\ [](MaxPollsSet =>
            requests <= (IF max_polls[1] >= 0 THEN max_polls[1] ELSE 0))
    /\ []((MaxPollsSet /\ max_polls[1] <= 0 /\ pc # "loop") =>
            /\ pc = "done"
            /\ requests = 0
            /\ ret[1].success
            /\ ret[1].data = <<>>
            /\ ret[1].total_count = 0)
    /\ (MaxPollsSet ~> pc # "loop")

\* C10 witness: the run spends all of its max_polls requests, the last one
\* answered with more items than asked.
C10_Witness ==
    /\ MaxPollsSet
    /\ max_polls[1] >= 2
    /\ requests = max_polls[1]
    /\ pc = "done"
    /\ total_fetched > max_polls[1]

\* the last request ended the way the loop is written to stop on: a failure
\* result, an empty page, or a page shorter than the limit asked
EndPage ==
    /\ PageReturned
    /\ \/ ~page[1].result.success
       \/ PyLen(page[1].result.data) = 0
       \/ PyLen(page[1].result.data) < page[1].limit

\* C11 as claimed: with max_polls unset a run that has stopped has stopped
\* on a request that failed, returned an empty page or returned fewer items
\* than the limit asked.
C11_StopsOnlyOnEndPage ==
    (~MaxPollsSet /\ pc # "loop") => EndPage

\* C11, the rest of it: with max_polls unset no request follows a failed,
\* empty or short page, and a request answered with exactly limit items
\* leaves the loop running with the total grown by limit, however many
\* requests were made before (there is no iteration cap).
C11_FullPagesKeepLooping ==
    /\ [][(~MaxPollsSet /\ EndPage) => requests' = requests]_vars
    /\ [][(/\ ~MaxPollsSet
           /\ requests' # requests
           /\ "success" \in DOMAIN page'[1].result
           /\ page'[1].result.success
           /\ PyLen(page'[1].result.data) = page'[1].limit)
          => (/\ pc' = "loop"
              /\ page'[1].limit = page_size
              /\ total_fetched' = total_fetched + page_size)]_vars

\* a run with max_polls unset still looping after three full pages
C11_StillLooping ==
    /\ ~MaxPollsSet
    /\ pc = "loop"
    /\ requests = 3
    /\ total_fetched = 3 * page_size

(* ---------------------------- register_user --------------------------- *)
Usernames == {"alice_test", "bob_test"}
Passwords == {"test_password_123", "different_password"}

\* register_user as a function of the outcome of its one HTTP call.
RegisterUserBelow500(username, password, outcome) ==
    IF outcome.type = "connection_error"
    THEN [success |-> FALSE, error |-> ErrorMsg("Could not connect to the API")]
    ELSE IF outcome.type = "request_error"
    THEN [success |-> FALSE, error |-> ErrorMsg("Request failed")]
    ELSE IF outcome.body.kind = "text"
    THEN [success |-> FALSE, error |-> ErrorMsg("Invalid JSON response from server")]
    ELSE IF outcome.status < 500
    THEN IF outcome.body.kind # "object"
         THEN [raised |-> "AttributeError"]
         ELSE [success |-> TRUE,
               status_code |-> outcome.status,
               data |-> outcome.body]
    ELSE [success |-> FALSE,
          status_code |-> outcome.status,
          error |-> outcome.body]

RegisterUser(username, password, outcome) ==
    IF outcome.type = "connection_error"
    THEN [success |-> FALSE, error |-> ErrorMsg("Could not connect to the API")]
    ELSE IF outcome.type = "request_error"
    THEN [success |-> FALSE, error |-> ErrorMsg("Request failed")]
    ELSE IF outcome.body.kind = "text"
    THEN [success |-> FALSE, error |-> ErrorMsg("Invalid JSON response from server")]
    ELSE IF outcome.status = HTTP_OK
    THEN IF outcome.body.kind # "object"
         THEN [raised |-> "AttributeError"]
         ELSE [success |-> TRUE,
               status_code |-> outcome.status,
               data |-> outcome.body]
    ELSE IF outcome.status = HTTP_BAD_REQUEST
    THEN [success |-> FALSE,
          status_code |-> outcome.status,
          error |-> outcome.body]
    ELSE [success |-> FALSE,
          status_code |-> outcome.status,
          error |-> outcome.body]

\* The registration service: a new username is stored and answered with 200
\* and a generated id, a username already held is answered with 400.
ServiceRegister(held, id, username) ==
    IF username \in held
    THEN Response(HTTP_BAD_REQUEST,
                  [kind |-> "object", detail |-> "Username already registered"])
    ELSE Response(HTTP_OK,
                  [kind |-> "object", id |-> id, username |-> username])

\* The outcomes of a POST that the registration service did not answer.
RegisterFaults ==
    { ConnectionError, RequestError }
    \cup { Response(s, b) : s \in {HTTP_OK, HTTP_BAD_REQUEST, 500},
                            b \in { JObject(<<>>), JArray(<<>>), NotJson } }

RegInit ==
    /\ source = <<>>
    /\ page_size = 1
    /\ max_polls = <<>>
    /\ pc = "idle"
    /\ all_polls = <<>>
    /\ skip = 0
    /\ total_fetched = 0
    /\ ret = <<>>
    /\ requests = 0
    /\ honest = TRUE
    /\ page = <<>>
    /\ users = {}
    /\ next_id = 1
    /\ log = <<>>

\* One register_user call that the registration service answers.
RegisterServed ==
    /\ Len(log) < MaxCalls
    /\ \E username \in Usernames, password \in Passwords :
         LET outcome == ServiceRegister(users, next_id, username)
             result == RegisterUser(username, password, outcome) IN
           /\ log' = Append(log, [username |-> username, served |-> TRUE,
                                  outcome |-> outcome, result |-> result])
           /\ IF outcome.status = HTTP_OK
              THEN /\ users' = users \cup {username}
                   /\ next_id' = next_id + 1
              ELSE UNCHANGED <<users, next_id>>
    /\ UNCHANGED pollVars

\* One register_user call whose request does not reach the service.
RegisterFaulted ==
    /\ Len(log) < MaxCalls
    /\ \E username \in Usernames, password \in Passwords :
         \E outcome \in RegisterFaults :
           log' = Append(log, [username |-> username, served |-> FALSE,
                               outcome |-> outcome,
                               result |-> RegisterUser(username, password, outcome)])
    /\ UNCHANGED <<users, next_id>>
    /\ UNCHANGED pollVars

RegNext == RegisterServed \/ RegisterFaulted

RegSpec == RegInit /\ [][RegNext]_vars

\* the call log[i] was answered by the service and no earlier answered call
\* used its username
FirstUse(i) ==
    /\ log[i].served
    /\ \A k \in 1..(i - 1) : log[k].served => log[k].username # log[i].username

\* C9: of the calls the registration service answers, the first with a
\* username returns success with status_code 200 and the generated id in
\* data, and every later one with that username returns a failure with
\* status_code 400 and the server's body as error.
C9_DuplicateRejected ==
    \A i \in 1..Len(log) :
        log[i].served =>
            IF FirstUse(i)
            THEN /\ "success" \in DOMAIN log[i].result
                 /\ log[i].result.success
                 /\ log[i].result.status_code = HTTP_OK
                 /\ "id" \in DOMAIN log[i].result.data
                 /\ log[i].result.data = log[i].outcome.body
            ELSE /\ "success" \in DOMAIN log[i].result
                 /\ ~log[i].result.success
                 /\ log[i].result.status_code = HTTP_BAD_REQUEST
                 /\ log[i].result.error = log[i].outcome.body

\* C9 witness: a username registered, another registered in between, the
\* first registered again and refused.
C9_Witness ==
    /\ Len(log) = 3
    /\ \A i \in 1..3 : log[i].served
    /\ log[1].username = log[3].username
    /\ log[2].username # log[1].username
    /\ log[1].result.success
    /\ log[2].result.success
    /\ ~log[3].result.success
    /\ log[3].result.status_code = HTTP_BAD_REQUEST

====
